---- MODULE Spec2Model ----
(***************************************************************************)
(* A model of src/src/CoffeeDashboard.jsx: the load effect, the row        *)
(* normalizer, the filter, the KPI/ranking aggregations and the three      *)
(* filter controls of the CoffeeDashboard component.                       *)
(*                                                                         *)
(* JavaScript values are records [t, n, s]: t is the kind ("undefined",    *)
(* "null", "number", "NaN", "string"), n the value of a number and s the   *)
(* characters of a string (a sequence of one-character strings).  A number *)
(* is held exactly, as an integer count of units of 1/Scale; binary        *)
(* floating-point error is not modelled.                                   *)
(***************************************************************************)
EXTENDS Integers, Sequences, FiniteSets, TLC

VARIABLES file, status, raw, coffee, minMonth, maxMonth, view, lastEvent

vars == <<file, status, raw, coffee, minMonth, maxMonth, view, lastEvent>>

----------------------------------------------------------------------------
(* Bounds of the model *)

\* longest cell string enumerated for the sales cell
MaxStrLen == 4
\* longest sheet (rows) enumerated for the transaction count and the slot sales
MaxRows == 3
\* longest sheet (rows) enumerated for the ranking
MaxTopRows == 4

RECURSIVE Pow10(_)
Pow10(k) == IF k = 0 THEN 1 ELSE 10 * Pow10(k - 1)

\* fractional decimal digits a number keeps: a string of MaxStrLen characters
\* has at most MaxStrLen - 1 of them (".001")
FracDigits == MaxStrLen - 1
Scale == Pow10(FracDigits)

----------------------------------------------------------------------------
(* JavaScript values *)

Undef == [t |-> "undefined", n |-> 0, s |-> <<>>]
Null == [t |-> "null", n |-> 0, s |-> <<>>]
NaN == [t |-> "NaN", n |-> 0, s |-> <<>>]
Num(x) == [t |-> "number", n |-> x, s |-> <<>>]
Str(cs) == [t |-> "string", n |-> 0, s |-> cs]
\* the whole number k
Whole(k) == Num(k * Scale)

\* ToBoolean: undefined, null, NaN, 0 and '' are falsy
Truthy(v) ==
    \/ v.t = "number" /\ v.n # 0
    \/ v.t = "string" /\ v.s # <<>>

\* a || b
OrElse(a, b) == IF Truthy(a) THEN a ELSE b

DigitChars == <<"0", "1", "2", "3", "4", "5", "6", "7", "8", "9">>
IsDigit(c) == \E i \in 1..10 : DigitChars[i] = c
DigitVal(c) == (CHOOSE i \in 1..10 : DigitChars[i] = c) - 1
WhiteSpace == {" ", "\t", "\n"}

RECURSIVE SkipSpaces(_)
SkipSpaces(cs) ==
    IF cs # <<>> /\ Head(cs) \in WhiteSpace THEN SkipSpaces(Tail(cs)) ELSE cs

RECURSIVE DropTrailingSpaces(_)
DropTrailingSpaces(cs) ==
    IF cs # <<>> /\ cs[Len(cs)] \in WhiteSpace
    THEN DropTrailingSpaces(SubSeq(cs, 1, Len(cs) - 1))
    ELSE cs

RECURSIVE DigitRunLen(_)
DigitRunLen(cs) ==
    IF cs # <<>> /\ IsDigit(Head(cs)) THEN 1 + DigitRunLen(Tail(cs)) ELSE 0

RECURSIVE DigitsValue(_)
DigitsValue(ds) ==
    IF ds = <<>> THEN 0
    ELSE DigitsValue(SubSeq(ds, 1, Len(ds) - 1)) * 10 + DigitVal(ds[Len(ds)])

\* The longest prefix of cs that is a StrDecimalLiteral (sign, digits, '.',
\* digits): whether there is one, its value and how many characters it takes.
\* Exponents and the literal Infinity are outside the alphabet of the model.
ScanDecimal(cs) ==
    LET signed == cs # <<>> /\ Head(cs) \in {"+", "-"}
        neg == signed /\ Head(cs) = "-"
        body == IF signed THEN Tail(cs) ELSE cs
        ni == DigitRunLen(body)
        afterInt == SubSeq(body, ni + 1, Len(body))
        hasDot == afterInt # <<>> /\ Head(afterInt) = "."
        nf == IF hasDot THEN DigitRunLen(Tail(afterInt)) ELSE 0
        kept == IF nf > FracDigits THEN FracDigits ELSE nf
        intPart == DigitsValue(SubSeq(body, 1, ni))
        fracPart == DigitsValue(SubSeq(afterInt, 2, 1 + kept)) * Pow10(FracDigits - kept)
        mag == intPart * Scale + fracPart
    IN  [ok |-> ni + nf > 0,
         value |-> IF neg THEN 0 - mag ELSE mag,
         used |-> (IF signed THEN 1 ELSE 0) + ni + (IF hasDot THEN 1 + nf ELSE 0)]

\* parseFloat(string): leading white space is skipped, the longest numeric
\* prefix is the value, no numeric prefix gives NaN
parseFloat(cs) ==
    LET r == ScanDecimal(SkipSpaces(cs))
    IN  IF r.ok THEN Num(r.value) ELSE NaN

\* StringToNumber: white space trimmed at both ends, '' is 0, the whole of
\* the rest must be a numeric literal
StringToNumber(cs) ==
    LET t == DropTrailingSpaces(SkipSpaces(cs))
        r == ScanDecimal(t)
    IN  IF t = <<>> THEN Num(0)
        ELSE IF r.ok /\ r.used = Len(t) THEN Num(r.value)
        ELSE NaN

\* Number(v)
Number(v) ==
    CASE v.t = "string" -> StringToNumber(v.s)
      [] v.t = "number" -> v
      [] v.t = "null" -> Num(0)
      [] OTHER -> NaN

RECURSIVE IntDigits(_)
IntDigits(k) ==
    IF k < 10 THEN <<DigitChars[k + 1]>>
    ELSE IntDigits(k \div 10) \o <<DigitChars[(k % 10) + 1]>>

RECURSIVE FixedDigits(_, _)
FixedDigits(k, w) ==
    IF w = 0 THEN <<>>
    ELSE FixedDigits(k \div 10, w - 1) \o <<DigitChars[(k % 10) + 1]>>

RECURSIVE DropTrailingZeros(_)
DropTrailingZeros(ds) ==
    IF ds # <<>> /\ ds[Len(ds)] = "0"
    THEN DropTrailingZeros(SubSeq(ds, 1, Len(ds) - 1))
    ELSE ds

\* Number::toString of the number n/Scale: the shortest decimal
NumberToString(n) ==
    LET a == IF n < 0 THEN 0 - n ELSE n
        frac == DropTrailingZeros(FixedDigits(a % Scale, FracDigits))
    IN  (IF n < 0 THEN <<"-">> ELSE <<>>)
        \o IntDigits(a \div Scale)
        \o (IF frac = <<>> THEN <<>> ELSE <<".">> \o frac)

\* v.toString() / String(v)
toString(v) ==
    CASE v.t = "string" -> v.s
      [] v.t = "number" -> NumberToString(v.n)
      [] v.t = "NaN" -> <<"N", "a", "N">>
      [] v.t = "null" -> <<"n", "u", "l", "l">>
      [] OTHER -> <<"u", "n", "d", "e", "f", "i", "n", "e", "d">>

\* x.toFixed(2): the integer c with c/100 nearest to |x| (the larger on a tie),
\* written with two decimals, '-' in front when x < 0
toFixed2(n) ==
    LET a == IF n < 0 THEN 0 - n ELSE n
        unit == Scale \div 100
        c == (a + unit \div 2) \div unit
    IN  (IF n < 0 THEN <<"-">> ELSE <<>>)
        \o IntDigits(c \div 100) \o <<".">> \o FixedDigits(c % 100, 2)

\* Number(x.toFixed(2))
Round2(v) == Number(Str(toFixed2(v.n)))

\* a + b on numbers
Plus(a, b) == IF a.t = "number" /\ b.t = "number" THEN Num(a.n + b.n) ELSE NaN

\* a >= b and a <= b: false when either side is NaN
Ge(a, b) == a.t = "number" /\ b.t = "number" /\ a.n >= b.n
Le(a, b) == a.t = "number" /\ b.t = "number" /\ a.n <= b.n

\* a === b
StrictEq(a, b) == a.t # "NaN" /\ b.t # "NaN" /\ a = b

\* new Set / Map key equality (SameValueZero): NaN equals NaN
SameValueZero(a, b) == a = b

----------------------------------------------------------------------------
(* The row normalizer *)

SalesKeys == <<"Sales_amount", "sales_amount", "Sales Amount">>
MonthKeys == <<"Monthsort", "Month Sort", "monthsort", "Month">>
\* the name aliases without the name the normalizer itself writes
NameKeysOnlyForeign == <<"Coffee Name", "coffee">>
NameKeys == <<"coffee_name", "Coffee Name", "coffee">>
IdKeys == <<"transaction_id", "Transaction ID", "transactio_id", "id">>
TimeKeys == <<"Time_of_Day", "Time of Day", "time_of_day", "Time">>

\* d[k]: a property the row object does not have reads as undefined
Prop(d, k) == IF k \in DOMAIN d THEN d[k] ELSE Undef

\* keys.map(k => d[k]).find(v => v !== undefined && v !== null)
RECURSIVE find(_, _)
find(d, keys) ==
    IF keys = <<>> THEN Undef
    ELSE LET v == Prop(d, Head(keys))
         IN  IF v # Undef /\ v # Null THEN v ELSE find(d, Tail(keys))

\* get(keys): the first value present, or '' when none is or it is falsy
get(d, keys) == OrElse(find(d, keys), Str(<<>>))

\* the characters the class [$,\\s] of the regular expression literal holds:
\* '$', ',', a backslash and the letter 's'
StrippedChars == {"$", ",", "\\", "s"}

\* s.replace(/[$,\\s]/g, '')
replace(cs) == SelectSeq(cs, LAMBDA c : c \notin StrippedChars)

\* the sales parse without the || 0 default
SalesOfNoDefault(salesRaw) == parseFloat(replace(toString(salesRaw)))

\* parseFloat(salesRaw.toString().replace(...)) || 0
SalesOf(salesRaw) == OrElse(parseFloat(replace(toString(salesRaw))), Num(0))

\* the body of raw.map
normalize(d) ==
    [sales |-> SalesOf(get(d, SalesKeys)),
     Monthsort |-> Number(get(d, MonthKeys)),
     coffee_name |-> get(d, NameKeys),
     transaction_id |-> get(d, IdKeys),
     Time_of_Day |-> get(d, TimeKeys)]

\* data = raw.map(...)
Data(rows) == [i \in 1..Len(rows) |-> normalize(rows[i])]

All == Str(<<"A", "l", "l">>)

\* the values of the options of the select: 'All' and every truthy
\* coffee_name of data, as the string the option carries (their order in the
\* list is not modelled)
coffeeOptions(data) ==
    {All} \cup {Str(toString(data[i].coffee_name)) :
                  i \in {j \in 1..Len(data) : Truthy(data[j].coffee_name)}}

----------------------------------------------------------------------------
(* The filter *)

coffeeOk(d, c) == StrictEq(c, All) \/ StrictEq(d.coffee_name, c)

\* the month test with the lower bound excluded
monthOkStrict(d, lo, hi) == ~Le(d.Monthsort, lo) /\ Le(d.Monthsort, hi)

monthOk(d, lo, hi) == Ge(d.Monthsort, lo) /\ Le(d.Monthsort, hi)

\* data.filter(...): the rows are visited in order and the kept ones pushed
RECURSIVE filtered(_, _, _, _)
filtered(data, c, lo, hi) ==
    IF data = <<>> THEN <<>>
    ELSE LET n == Len(data)
             before == filtered(SubSeq(data, 1, n - 1), c, lo, hi)
         IN  IF coffeeOk(data[n], c) /\ monthOk(data[n], lo, hi)
             THEN Append(before, data[n])
             ELSE before

----------------------------------------------------------------------------
(* The aggregations *)

\* rows.reduce((s, d) => s + d.sales, 0)
RECURSIVE SumSales(_)
SumSales(rows) ==
    IF rows = <<>> THEN Num(0)
    ELSE Plus(SumSales(SubSeq(rows, 1, Len(rows) - 1)), rows[Len(rows)].sales)

totalSales(rows) == SumSales(rows)

\* new Set(values): the distinct values, in insertion order
RECURSIVE NewSet(_)
NewSet(values) ==
    IF values = <<>> THEN <<>>
    ELSE LET n == Len(values)
             s == NewSet(SubSeq(values, 1, n - 1))
         IN  IF \E i \in 1..Len(s) : SameValueZero(s[i], values[n])
             THEN s
             ELSE Append(s, values[n])

\* the row count instead of the distinct-id count
totalTransactionsRows(rows) == Len(rows)

\* new Set(filtered.map(d => d.transaction_id)).size, a count
totalTransactions(rows) ==
    Len(NewSet([i \in 1..Len(rows) |-> rows[i].transaction_id]))

\* the quotient a / k of a number by a count, held exactly as a fraction
\* (num in units of 1/Scale); den = 0 is the NaN of 0 / 0
Quotient(a, k) == [num |-> a.n, den |-> k]
Zero == [num |-> 0, den |-> 1]

\* the average without the guard against a count of 0
avgValueNoGuard(ts, tt) == Quotient(ts, tt)

\* totalTransactions ? totalSales / totalTransactions : 0
avgValue(ts, tt) == IF tt # 0 THEN Quotient(ts, tt) ELSE Zero

Morning == Str(<<"M", "o", "r", "n", "i", "n", "g">>)
Afternoon == Str(<<"A", "f", "t", "e", "r", "n", "o", "o", "n">>)
Night == Str(<<"N", "i", "g", "h", "t">>)
timeSlots == <<Morning, Afternoon, Night>>

\* the slot sum without the test on the label
slotSalesAnyLabel(rows, slot) == SumSales(rows)

\* filtered.filter(d => d.Time_of_Day === slot).reduce(...)
slotSales(rows, slot) ==
    SumSales(SelectSeq(rows, LAMBDA d : StrictEq(d.Time_of_Day, slot)))

salesByTime(rows) ==
    [i \in 1..Len(timeSlots) |->
        [Time_of_Day |-> timeSlots[i],
         Sales |-> Round2(slotSales(rows, timeSlots[i]))]]

\* an insertion that puts an element in front of the earlier ones with an
\* equal key (an unstable sort)
InsertDescBeforeEqual(order, keys, j) ==
    LET p == Cardinality({i \in 1..Len(order) : keys[order[i]] > keys[j]})
    IN  SubSeq(order, 1, p) \o <<j>> \o SubSeq(order, p + 1, Len(order))

\* Array.prototype.sort with the comparator (a, b) => b.key - a.key, as the
\* order of the indices of keys: stable, so an element goes behind every
\* earlier one whose key is not smaller
InsertDesc(order, keys, j) ==
    LET p == Cardinality({i \in 1..Len(order) : keys[order[i]] >= keys[j]})
    IN  SubSeq(order, 1, p) \o <<j>> \o SubSeq(order, p + 1, Len(order))

RECURSIVE SortDescUpTo(_, _)
SortDescUpTo(keys, j) ==
    IF j = 0 THEN <<>> ELSE InsertDesc(SortDescUpTo(keys, j - 1), keys, j)

SortDesc(keys) == SortDescUpTo(keys, Len(keys))

Dash == Str(<<"-">>)

\* the peak taken from an ascending sort
peakTimeAscending(sbt) ==
    LET order == SortDesc([i \in 1..Len(sbt) |-> sbt[i].Sales.n])
    IN  IF order = <<>> THEN Dash
        ELSE OrElse(sbt[order[Len(order)]].Time_of_Day, Dash)

\* [...salesByTime].sort((a, b) => b.Sales - a.Sales)[0]?.Time_of_Day || '-'
peakTime(sbt) ==
    LET order == SortDesc([i \in 1..Len(sbt) |-> sbt[i].Sales.n])
    IN  IF order = <<>> THEN Dash
        ELSE OrElse(sbt[order[1]].Time_of_Day, Dash)

\* the Map of the loop over filtered: one entry per coffee_name, in the order
\* the names first occur, holding (map.get(name) || 0) + r.sales
RECURSIVE GroupSales(_)
GroupSales(rows) ==
    IF rows = <<>> THEN <<>>
    ELSE LET n == Len(rows)
             m == GroupSales(SubSeq(rows, 1, n - 1))
             r == rows[n]
             at == {i \in 1..Len(m) : SameValueZero(m[i].name, r.coffee_name)}
         IN  IF at = {}
             THEN Append(m, [name |-> r.coffee_name, total |-> Plus(Num(0), r.sales)])
             ELSE LET i == CHOOSE i \in at : TRUE
                  IN  [m EXCEPT ![i].total = Plus(OrElse(@, Num(0)), r.sales)]

\* entries.slice(0, 3)
TopN == 3
slice(seq) == SubSeq(seq, 1, IF Len(seq) < TopN THEN Len(seq) ELSE TopN)

top3Overall(rows) ==
    LET m == GroupSales(rows)
        entries == [i \in 1..Len(m) |-> [name |-> m[i].name, total |-> Round2(m[i].total)]]
        order == SortDesc([i \in 1..Len(entries) |-> entries[i].total.n])
    IN  slice([i \in 1..Len(order) |-> entries[order[i]]])

\* one render of the component: the useMemo values that depend on the filter
\* state are computed again; data is (useMemo on [raw]) only when raw changed
render(data, c, lo, hi) ==
    LET sub == filtered(data, c, lo, hi)
        ts == totalSales(sub)
        tt == totalTransactions(sub)
        sbt == salesByTime(sub)
    IN  [data |-> data,
         coffeeOptions |-> coffeeOptions(data),
         filtered |-> sub,
         totalSales |-> ts,
         totalTransactions |-> tt,
         avgValue |-> avgValue(ts, tt),
         salesByTime |-> sbt,
         peakTime |-> peakTime(sbt),
         top3Overall |-> top3Overall(sub)]

----------------------------------------------------------------------------
(* The sheets the workbook may hold *)

Latte == Str(<<"L", "a", "t", "t", "e">>)
Espresso == Str(<<"E", "s", "p", "r", "e", "s", "s", "o">>)
Cappuccino == Str(<<"C", "a", "p", "p", "u", "c", "c", "i", "n", "o">>)
Evening == Str(<<"E", "v", "e", "n", "i", "n", "g">>)
T1 == Str(<<"t", "1">>)
T2 == Str(<<"t", "2">>)
T3 == Str(<<"t", "3">>)

\* a row object with the five usual columns
Row(sales, month, name, id, time) ==
    [Sales_amount |-> sales, Monthsort |-> month, coffee_name |-> name,
     transaction_id |-> id, Time_of_Day |-> time]

\* a row object without the columns whose cell is empty (sheet_to_json leaves
\* them out)
Present(d) == [k \in {x \in DOMAIN d : d[x] # Undef} |-> d[k]]

\* the four rows of the end-to-end scenario
ExampleSheet ==
    <<Row(Whole(5), Whole(1), Latte, T1, Morning),
      Row(Whole(3), Whole(1), Latte, T1, Morning),
      Row(Whole(10), Whole(6), Espresso, T2, Night),
      Row(Whole(2), Whole(1), Cappuccino, T3, Afternoon)>>

\* fifteen rows, in no month order: every month 1..13, one row without a
\* month cell and one whose month cell is text; two names and an empty name
\* cell, each over runs of four months; transaction ids that repeat, four
\* time-of-day labels
MonthsSheet ==
    [i \in 1..15 |->
        LET m == (i * 4) % 15
        IN  Present(Row(
                IF i % 2 = 0 THEN Whole(i) ELSE Str(<<"$", "1", ",", "0", ".", "5">>),
                IF m = 0 THEN Undef
                ELSE IF m = 14 THEN Str(<<"a", "b">>)
                ELSE IF m % 2 = 0 THEN Str(NumberToString(m * Scale))
                ELSE Whole(m),
                <<Latte, Espresso, Undef>>[((m \div 4) % 3) + 1],
                Whole(i % 5),
                <<Morning, Afternoon, Night, Evening>>[(i % 4) + 1]))]

SampleSheets == {<<>>, ExampleSheet, MonthsSheet}

\* every sequence over S of length at most n
SeqsUpTo(S, n) == UNION {[1..k -> S] : k \in 0..n}

\* a row object from a set of <<column, cell>> pairs
RowOf(pairs) == [k \in {p[1] : p \in pairs} |-> (CHOOSE p \in pairs : p[1] = k)[2]]

\* the characters of the sales cells enumerated
CellAlphabet == {"1", ".", "$", ",", " ", "-", "s", "a"}
CellStrings == SeqsUpTo(CellAlphabet, MaxStrLen)

\* one-row sheets: every cell string as the sales cell, and rows whose five
\* fields come under each alias, as numbers, strings, null or not at all
SalesCells ==
    {{}, {<<"Sales_amount", Whole(0 - 5)>>}, {<<"sales_amount", Num(15 * (Scale \div 10))>>},
     {<<"Sales Amount", Str(<<"$", "1", ",", "1", ".", "1">>)>>},
     {<<"Sales_amount", Null>>, <<"Sales Amount", Whole(2)>>}}
MonthCells ==
    {{}, {<<"Monthsort", Whole(6)>>}, {<<"Month Sort", Str(<<"7">>)>>},
     {<<"monthsort", Str(<<"a", "b">>)>>}, {<<"Month", Whole(0)>>},
     {<<"Monthsort", Null>>, <<"Month", Whole(3)>>}}
NameCells ==
    {{}, {<<"coffee_name", Latte>>}, {<<"Coffee Name", Espresso>>}, {<<"coffee", Whole(5)>>}}
IdCells ==
    {{}, {<<"transaction_id", T1>>}, {<<"Transaction ID", Whole(7)>>},
     {<<"transactio_id", Whole(0)>>}, {<<"id", T2>>}}
TimeCells ==
    {{}, {<<"Time_of_Day", Morning>>}, {<<"Time of Day", Evening>>},
     {<<"time_of_day", Afternoon>>}, {<<"Time", Night>>}}
NormSheets ==
    {<<RowOf({<<"Sales_amount", Str(cs)>>})>> : cs \in CellStrings}
    \cup {<<RowOf(a \cup b \cup c \cup d \cup e)>> :
            a \in SalesCells, b \in MonthCells, c \in NameCells, d \in IdCells, e \in TimeCells}

\* sheets whose rows differ in the transaction id and in having a month
IdRows ==
    {Present(Row(Whole(1), month, Latte, id, Morning)) :
        month \in {Whole(1), Undef}, id \in {T1, T2, Whole(1), Str(<<"1">>), Undef}}
IdSheets == SeqsUpTo(IdRows, MaxRows)

\* sheets whose rows differ in the sales amount and the time-of-day label
SlotRows ==
    {Row(sales, Whole(1), Latte, T1, time) :
        sales \in {Str(<<".", "0", "0", "6">>), Whole(1), Whole(0 - 1)},
        time \in {Morning, Afternoon, Night, Evening}}
SlotSheets == SeqsUpTo(SlotRows, MaxRows)

\* sheets whose rows differ in the name and the sales amount
TopRows ==
    {Present(Row(sales, Whole(1), name, T1, Morning)) :
        sales \in {Str(<<".", "0", "0", "6">>), Whole(1)},
        name \in {Latte, Espresso, Cappuccino, Undef}}
TopSheets == SeqsUpTo(TopRows, MaxTopRows)

----------------------------------------------------------------------------
(* The component *)

\* Math.min(a, b), Math.max(a, b)
MathMin(a, b) ==
    IF a.t # "number" \/ b.t # "number" THEN NaN
    ELSE IF a.n <= b.n THEN a ELSE b
MathMax(a, b) ==
    IF a.t # "number" \/ b.t # "number" THEN NaN
    ELSE IF a.n >= b.n THEN a ELSE b

\* the values an <input type="range" min="1" max="12" step="1"> reports
SliderMin == 1
SliderMax == 12
SliderValues == {Str(NumberToString(k * Scale)) : k \in SliderMin..SliderMax}

\* the Start handler without the clamp against maxMonth
StartValueNoClamp(value, hi) == Number(value)

\* what the Start and the End handlers pass to setMinMonth / setMaxMonth
StartValue(value, hi) == MathMin(Number(value), hi)
EndValue(value, lo) == MathMax(Number(value), lo)

Event(op, value) == [op |-> op, value |-> value]

\* the state after the first render, the fetch in flight; file is the sheet
\* the workbook behind the URL holds
InitWith(sheets) ==
    /\ file \in sheets
    /\ status = "loading"
    /\ raw = <<>>
    /\ coffee = All
    /\ minMonth = Whole(1)
    /\ maxMonth = Whole(12)
    /\ view = render(Data(<<>>), All, Whole(1), Whole(12))
    /\ lastEvent = Event("mount", Undef)

\* the fetch, the read and sheet_to_json succeed: setRaw(json)
LoadOk ==
    /\ status = "loading"
    /\ status' = "loaded"
    /\ raw' = file
    /\ view' = render(Data(raw'), coffee, minMonth, maxMonth)
    /\ lastEvent' = Event("load", Undef)
    /\ UNCHANGED <<file, coffee, minMonth, maxMonth>>

\* the fetch or the decoding rejects: console.error, nothing is set
LoadFail ==
    /\ status = "loading"
    /\ status' = "failed"
    /\ lastEvent' = Event("error", Undef)
    /\ UNCHANGED <<file, raw, coffee, minMonth, maxMonth, view>>

\* the select: setCoffee(e.target.value)
ChangeCoffee ==
    \E value \in view.coffeeOptions :
        /\ coffee' = value
        /\ view' = render(view.data, coffee', minMonth, maxMonth)
        /\ lastEvent' = Event("coffee", value)
        /\ UNCHANGED <<file, status, raw, minMonth, maxMonth>>

\* the Start slider: setMinMonth(Math.min(Number(e.target.value), maxMonth))
ChangeStart ==
    \E value \in SliderValues :
        /\ minMonth' = StartValue(value, maxMonth)
        /\ view' = render(view.data, coffee, minMonth', maxMonth)
        /\ lastEvent' = Event("start", value)
        /\ UNCHANGED <<file, status, raw, coffee, maxMonth>>

\* the End slider: setMaxMonth(Math.max(Number(e.target.value), minMonth))
ChangeEnd ==
    \E value \in SliderValues :
        /\ maxMonth' = EndValue(value, minMonth)
        /\ view' = render(view.data, coffee, minMonth, maxMonth')
        /\ lastEvent' = Event("end", value)
        /\ UNCHANGED <<file, status, raw, coffee, minMonth>>

Init == InitWith(SampleSheets)

Next == LoadOk \/ LoadFail \/ ChangeCoffee \/ ChangeStart \/ ChangeEnd

\* the load alone: the normalizer and the aggregations applied to a sheet
NextLoad == LoadOk \/ LoadFail

SpecNorm == InitWith(NormSheets) /\ [][NextLoad]_vars
SpecIds == InitWith(IdSheets) /\ [][NextLoad]_vars
SpecSlots == InitWith(SlotSheets) /\ [][NextLoad]_vars
SpecTop == InitWith(TopSheets) /\ [][NextLoad]_vars

Spec == Init /\ [][Next]_vars

----------------------------------------------------------------------------
(* The month range (C1) *)

\* the whole number a slider value spells
SliderNumber(value) ==
    CHOOSE k \in SliderMin..SliderMax : NumberToString(k * Scale) = value.s

Lesser(a, b) == IF a <= b THEN a ELSE b
Greater(a, b) == IF a >= b THEN a ELSE b

MonthRangeOk ==
    /\ minMonth.t = "number" /\ maxMonth.t = "number"
    /\ SliderMin * Scale <= minMonth.n
    /\ minMonth.n <= maxMonth.n
    /\ maxMonth.n <= SliderMax * Scale

StartSetsMin ==
    lastEvent'.op = "start" =>
        /\ minMonth' = Num(Lesser(SliderNumber(lastEvent'.value) * Scale, maxMonth.n))
        /\ maxMonth' = maxMonth /\ coffee' = coffee

EndSetsMax ==
    lastEvent'.op = "end" =>
        /\ maxMonth' = Num(Greater(SliderNumber(lastEvent'.value) * Scale, minMonth.n))
        /\ minMonth' = minMonth /\ coffee' = coffee

\* C1: from monthMin = 1, monthMax = 12, after any sequence of Start and End
\* changes with values in 1..12 the state has 1 <= monthMin <= monthMax <= 12;
\* a Start change sets monthMin to min(value, monthMax), an End change sets
\* monthMax to max(value, monthMin), and each leaves the other bound and the
\* coffee selector as they were.
C1_MonthRange == []MonthRangeOk /\ [][StartSetsMin /\ EndSetsMax]_vars

\* a Start change whose value lay above monthMax and was clamped to it
C1_Witness ==
    /\ lastEvent.op = "start"
    /\ SliderNumber(lastEvent.value) * Scale > maxMonth.n
    /\ minMonth = maxMonth
    /\ maxMonth.n < SliderMax * Scale

----------------------------------------------------------------------------
(* The filter (C2) *)

\* the rows of data the filter state asks for, by position
Wanted ==
    {i \in 1..Len(view.data) :
        /\ coffee = All \/ view.data[i].coffee_name = coffee
        /\ view.data[i].Monthsort.t = "number"
        /\ minMonth.n <= view.data[i].Monthsort.n
        /\ view.data[i].Monthsort.n <= maxMonth.n}

\* C2: the filtered subset holds transaction t iff (coffeeSelector = "All" or
\* t.coffeeName = coffeeSelector) and monthMin <= t.monthSort <= monthMax, in
\* the original relative order; a row at monthMin or monthMax is in, a row at
\* monthMin - 1 or monthMax + 1 is out, a row whose monthSort is NaN is out
\* under every filter state.
C2_Filter ==
    /\ Len(view.filtered) = Cardinality(Wanted)
    /\ \A i \in Wanted :
          view.filtered[Cardinality({j \in Wanted : j <= i})] = view.data[i]
    /\ \A j \in 1..Len(view.filtered) :
          /\ view.filtered[j].Monthsort.t # "NaN"
          /\ view.filtered[j].Monthsort.n # minMonth.n - Scale
          /\ view.filtered[j].Monthsort.n # maxMonth.n + Scale
    /\ \A i \in 1..Len(view.data) :
          /\ coffee = All
          /\ view.data[i].Monthsort \in {minMonth, maxMonth}
          => \E j \in 1..Len(view.filtered) : view.filtered[j] = view.data[i]

\* a loaded sheet with rows at monthMin - 1, monthMin, monthMax, monthMax + 1
\* and a NaN month, a name selected, some rows kept and some dropped
C2_Witness ==
    /\ status = "loaded"
    /\ coffee # All
    /\ \A m \in {minMonth.n - Scale, minMonth.n, maxMonth.n, maxMonth.n + Scale} :
          \E i \in 1..Len(view.data) :
              view.data[i].Monthsort = Num(m) /\ view.data[i].coffee_name = coffee
    /\ \E i \in 1..Len(view.data) : view.data[i].Monthsort = NaN
    /\ Len(view.filtered) > 1
    /\ Len(view.filtered) < Len(view.data)
    /\ minMonth # maxMonth

----------------------------------------------------------------------------
(* Empty subsets (C10) *)

EmptyIsZero ==
    /\ status # "loaded" => view.filtered = <<>>
    /\ view.filtered = <<>> =>
          /\ view.totalSales = Num(0)
          /\ view.totalTransactions = 0
          /\ view.avgValue.num = 0 /\ view.avgValue.den # 0
          /\ Len(view.salesByTime) = 3
          /\ \A i \in 1..Len(view.salesByTime) : view.salesByTime[i].Sales = Num(0)
          /\ view.top3Overall = <<>>
    /\ view.totalTransactions = 0 =>
          view.avgValue.num = 0 /\ view.avgValue.den # 0

FailedStaysEmpty ==
    status = "failed" => status' = "failed" /\ raw' = <<>> /\ view'.data = <<>>

\* C10: whenever the filtered subset is empty (before the load completes,
\* after a failed load, where the dataset stays empty under any filter change,
\* and when no row matches) totalSales = 0, totalTransactions = 0,
\* avgValue = 0 (not NaN), every salesByTimeSlot entry is 0 and top3Overall is
\* empty; avgValue = 0 whenever totalTransactions = 0.
C10_EmptyIsZero == []EmptyIsZero /\ [][FailedStaysEmpty]_vars

\* the load failed and the month range was changed afterwards
C10_Witness ==
    /\ status = "failed"
    /\ lastEvent.op = "end"
    /\ minMonth # Whole(1)
    /\ maxMonth # Whole(12)
    /\ view.filtered = <<>>

----------------------------------------------------------------------------
(* The normalizer applied to its own output (C3) *)

\* C3: the normalizer is idempotent: its output record, fed back to it as a
\* raw row, comes out equal in all five fields.
C3_Idempotent ==
    \A i \in 1..Len(view.data) : normalize(view.data[i]) = view.data[i]

\* C3 as amended: the output record fed back keeps coffee_name,
\* transaction_id and Time_of_Day, and Monthsort unless it is NaN, which
\* becomes 0; sales becomes 0, 'sales' being no alias of the sales column.
C3_IdempotentButSales ==
    \A i \in 1..Len(view.data) :
        LET d == view.data[i]
            e == normalize(d)
        IN  /\ e.coffee_name = d.coffee_name
            /\ e.transaction_id = d.transaction_id
            /\ e.Time_of_Day = d.Time_of_Day
            /\ e.Monthsort = IF d.Monthsort = NaN THEN Num(0) ELSE d.Monthsort
            /\ e.sales = Num(0)

\* a row normalized with sales other than 0, a NaN month and a name, an id
\* and a label read under aliases
C3_Witness ==
    /\ status = "loaded" /\ Len(view.data) = 1
    /\ view.data[1].sales.n # 0
    /\ view.data[1].Monthsort = NaN
    /\ "Coffee Name" \in DOMAIN raw[1] /\ Truthy(view.data[1].coffee_name)
    /\ "Transaction ID" \in DOMAIN raw[1] /\ Truthy(view.data[1].transaction_id)
    /\ "Time of Day" \in DOMAIN raw[1] /\ Truthy(view.data[1].Time_of_Day)

----------------------------------------------------------------------------
(* The sales field (C4, C5) *)

\* the sales cell of a raw row as text ('' when there is none)
SalesText(d) ==
    LET v == find(d, SalesKeys)
    IN  IF v \in {Undef, Null} THEN <<>> ELSE toString(v)

ClaimedSales(cs) ==
    OrElse(parseFloat(SelectSeq(cs, LAMBDA c : c \notin {"$", ","} \cup WhiteSpace)), Num(0))

\* C5: monetary parsing removes every '$', every ',' and every white space
\* character from the sales cell, wherever they occur, and only those, and
\* parses the rest as a decimal; a rest that is no number gives 0.
C5_MoneyParsing ==
    \A i \in 1..Len(view.data) :
        LET v == find(raw[i], SalesKeys)
        IN  v.t = "string" => view.data[i].sales = ClaimedSales(v.s)

----------------------------------------------------------------------------
(* The transaction count (C6) *)

\* C6: totalTransactions is the number of distinct transactionId values in
\* the filtered subset: at most the number of rows, equal to it when all ids
\* are unique, rows sharing an id counting once.
C6_DistinctIds ==
    LET rows == view.filtered
        ids == {rows[i].transaction_id : i \in 1..Len(rows)}
    IN  /\ view.totalTransactions = Cardinality(ids)
        /\ view.totalTransactions <= Len(rows)
        /\ (\A i, j \in 1..Len(rows) :
               rows[i].transaction_id = rows[j].transaction_id => i = j)
           => view.totalTransactions = Len(rows)

\* rows kept that share an id, beside a row kept with another id
C6_Witness ==
    /\ status = "loaded"
    /\ view.totalTransactions < Len(view.filtered)
    /\ view.totalTransactions > 1

----------------------------------------------------------------------------
(* The sales per time slot and the peak (C7, C8) *)

RECURSIVE SumInts(_)
SumInts(ns) == IF ns = <<>> THEN 0 ELSE Head(ns) + SumInts(Tail(ns))

Abs(n) == IF n < 0 THEN 0 - n ELSE n

\* the exact sales of the filtered rows with a given label, in units of 1/Scale
LabelSum(label) ==
    SumInts([i \in 1..Len(view.filtered) |->
                IF view.filtered[i].Time_of_Day = label
                THEN view.filtered[i].sales.n ELSE 0])

\* the exact sales of the filtered rows whose label is none of the slots
OtherSum ==
    SumInts([i \in 1..Len(view.filtered) |->
                IF \E k \in 1..Len(timeSlots) : view.filtered[i].Time_of_Day = timeSlots[k]
                THEN 0 ELSE view.filtered[i].sales.n])

EntrySum == SumInts([i \in 1..Len(view.salesByTime) |-> view.salesByTime[i].Sales.n])

HalfCent == Scale \div 200

\* C7: the sum of the three salesByTimeSlot entries, each rounded to 2
\* decimals, is at most totalSales of the same subset; rows with an
\* unrecognized label count in totalSales but in no slot.
C7_SlotsAtMostTotal == EntrySum <= view.totalSales.n

\* C7 as amended: each entry is within 0.005 of the summed sales of its
\* slot's rows, so the three entries sum to within 0.015 of the sales of the
\* rows with a recognized label; totalSales is that plus the sales of the
\* rows with an unrecognized label, which count in no slot.  The sum of the
\* entries is at most totalSales + 0.015 when those rows' sales are not
\* negative in total.
C7_SlotsWithinRounding ==
    /\ Len(view.salesByTime) = Len(timeSlots)
    /\ \A k \in 1..Len(timeSlots) :
          /\ view.salesByTime[k].Time_of_Day = timeSlots[k]
          /\ Abs(view.salesByTime[k].Sales.n - LabelSum(timeSlots[k])) <= HalfCent
    /\ view.totalSales.n = SumInts([k \in 1..Len(timeSlots) |-> LabelSum(timeSlots[k])]) + OtherSum
    /\ Abs(EntrySum - (view.totalSales.n - OtherSum)) <= 3 * HalfCent
    /\ OtherSum >= 0 => EntrySum <= view.totalSales.n + 3 * HalfCent

\* the entries sum to more than totalSales: a slot rounded up, and a row with
\* an unrecognized label and negative sales
C7_Witness ==
    /\ status = "loaded"
    /\ EntrySum > view.totalSales.n
    /\ OtherSum < 0
    /\ \E k \in 1..Len(timeSlots) : view.salesByTime[k].Sales.n > LabelSum(timeSlots[k])

\* the first slot, in the fixed order, whose key is the greatest
FirstGreatest(keys) ==
    CHOOSE k \in 1..Len(keys) :
        /\ \A j \in 1..Len(keys) : keys[j] <= keys[k]
        /\ \A j \in 1..(k - 1) : keys[j] < keys[k]

\* C8: peakTimeOfDay is the slot whose summed sales over the subset is the
\* greatest of Morning, Afternoon, Night, the earliest in that order on a
\* tie; '-' is never reported (an empty subset reports Morning).
C8_PeakOfSums ==
    /\ view.peakTime = timeSlots[FirstGreatest([k \in 1..Len(timeSlots) |-> LabelSum(timeSlots[k])])]
    /\ view.peakTime # Dash
    /\ view.filtered = <<>> => view.peakTime = Morning

\* C8 as amended: peakTimeOfDay is the slot whose salesByTimeSlot entry (the
\* summed sales rounded to 2 decimals) is the greatest, the earliest in the
\* order Morning, Afternoon, Night on a tie of the entries; '-' is never
\* reported (an empty subset reports Morning).
C8_PeakOfEntries ==
    /\ view.peakTime = timeSlots[FirstGreatest([k \in 1..Len(timeSlots) |-> view.salesByTime[k].Sales.n])]
    /\ view.peakTime # Dash
    /\ view.filtered = <<>> => view.peakTime = Morning

\* Morning is reported although Afternoon sold more: both round to one entry
C8_Witness ==
    /\ status = "loaded"
    /\ view.peakTime = Morning
    /\ LabelSum(Afternoon) > LabelSum(Morning)
    /\ view.salesByTime[1].Sales = view.salesByTime[2].Sales
    /\ view.salesByTime[1].Sales.n > view.salesByTime[3].Sales.n

----------------------------------------------------------------------------
(* The ranking (C9) *)

FilteredNames == {view.filtered[i].coffee_name : i \in 1..Len(view.filtered)}

\* where a name first occurs in the filtered subset
FirstAt(name) ==
    CHOOSE i \in 1..Len(view.filtered) :
        /\ view.filtered[i].coffee_name = name
        /\ \A j \in 1..(i - 1) : view.filtered[j].coffee_name # name

\* the exact sales of the filtered rows of a name, in units of 1/Scale
NameSum(name) ==
    SumInts([i \in 1..Len(view.filtered) |->
                IF view.filtered[i].coffee_name = name
                THEN view.filtered[i].sales.n ELSE 0])

\* n rounded to the nearest hundredth, halves away from 0
Hundredths(n) ==
    LET c == (Abs(n) + HalfCent) \div (2 * HalfCent)
    IN  IF n < 0 THEN 0 - c * 2 * HalfCent ELSE c * 2 * HalfCent

\* the ranking laws, for the total each name is listed and ranked with
RankedBy(total) ==
    LET top == view.top3Overall
        listed == {top[k].name : k \in 1..Len(top)}
    IN  /\ Len(top) = Lesser(TopN, Cardinality(FilteredNames))
        /\ listed \subseteq FilteredNames
        /\ \A k, l \in 1..Len(top) : top[k].name = top[l].name => k = l
        /\ \A k \in 1..Len(top) : top[k].total = Num(total[top[k].name])
        /\ \A k, l \in 1..Len(top) :
              k < l =>
                 \/ total[top[k].name] > total[top[l].name]
                 \/ /\ total[top[k].name] = total[top[l].name]
                    /\ FirstAt(top[k].name) < FirstAt(top[l].name)
        /\ \A name \in FilteredNames \ listed :
              \A k \in 1..Len(top) :
                 \/ total[name] < total[top[k].name]
                 \/ /\ total[name] = total[top[k].name]
                    /\ FirstAt(top[k].name) < FirstAt(name)

\* C9: top3Overall holds one entry per coffeeName with the sum of that
\* name's sales, has length min(3, number of distinct names), is ordered by
\* non-increasing total, keeps among equal totals the order in which the names
\* first occur, and leaves out no name with a larger total than a listed one.
C9_Top3OfSums == RankedBy([name \in FilteredNames |-> NameSum(name)])

\* C9 as amended: the same, with every total the sum of the name's sales
\* rounded to 2 decimals: the entries hold, are ordered by and are cut off by
\* the rounded totals.
C9_Top3OfRounded == RankedBy([name \in FilteredNames |-> Hundredths(NameSum(name))])

\* four names, three listed, the third listed and the one left out with
\* equal rounded totals, and a listed total that is not the exact sum
C9_Witness ==
    /\ status = "loaded"
    /\ Cardinality(FilteredNames) = TopN + 1
    /\ Len(view.top3Overall) = TopN
    /\ \E name \in FilteredNames :
          /\ \A k \in 1..TopN : view.top3Overall[k].name # name
          /\ Hundredths(NameSum(name)) = view.top3Overall[TopN].total.n
    /\ view.top3Overall[TopN].total.n # NameSum(view.top3Overall[TopN].name)
    /\ view.top3Overall[1].total.n > view.top3Overall[TopN].total.n

====
